---- MODULE Spec2Model ----
(***************************************************************************)
(* Interpolators and Extrapolator of colour.algebra, as a state machine.   *)
(*                                                                         *)
(* One interpolator instance (KernelInterpolator, LinearInterpolator,      *)
(* SpragueInterpolator or NullInterpolator) and, optionally, one           *)
(* Extrapolator wrapping it.  Sample positions and sample values are       *)
(* integers; every computed value is an exact rational <<n, d>> in lowest  *)
(* terms (d > 0), so the arithmetic is the exact arithmetic the floating   *)
(* point code approximates.                                                *)
(***************************************************************************)
EXTENDS Integers, Sequences, FiniteSets

VARIABLES
    kind,                 \* class of the instance: "none" before construction
    x, y,                 \* self._x, self._y
    window,               \* KernelInterpolator._window
    padding_args,         \* KernelInterpolator._padding_args['pad_width'][0]
    kernel,               \* KernelInterpolator._kernel
    x_p, y_p,             \* KernelInterpolator._x_p, ._y_p
    xp, yp,               \* SpragueInterpolator._xp, ._yp
    absolute_tolerance,   \* NullInterpolator._absolute_tolerance
    relative_tolerance,   \* NullInterpolator._relative_tolerance
    default,              \* NullInterpolator._default
    method, left, right,  \* Extrapolator._method, ._left, ._right
    res,                  \* outcome of the last operation
    evals                 \* the evaluations in progress, one per thread

vars == <<kind, x, y, window, padding_args, kernel, x_p, y_p, xp, yp,
          absolute_tolerance, relative_tolerance, default,
          method, left, right, res, evals>>

kernelVars == <<window, padding_args, kernel, x_p, y_p>>
spragueVars == <<xp, yp>>
nullVars == <<absolute_tolerance, relative_tolerance, default>>
extrapVars == <<method, left, right>>

----------------------------------------------------------------------------
(* Bounds of the model *)

MaxLen == 3
MaxW == 2

\* sample counts the Sprague method accepts start at 6
SpragueMin == 6

\* not-a-number: a value with denominator 0
NaN == <<0, 0>>

----------------------------------------------------------------------------
(* Exact rationals *)

Abs(a) == IF a < 0 THEN -a ELSE a

RECURSIVE GCD(_, _)
GCD(a, b) == IF b = 0 THEN a ELSE GCD(b, a % b)

Rat(n, d) ==
    LET s == IF d < 0 THEN -1 ELSE 1
        g == GCD(Abs(n), Abs(d))
    IN  <<(s * n) \div g, (s * d) \div g>>

R(n) == <<n, 1>>
\* the operands share their common factors before they are multiplied, which
\* keeps the intermediate products small
RAdd(a, b) ==
    LET g == GCD(a[2], b[2])
    IN  Rat(a[1] * (b[2] \div g) + b[1] * (a[2] \div g), (a[2] \div g) * b[2])
RSub(a, b) == RAdd(a, <<-b[1], b[2]>>)
RMul(a, b) ==
    LET g1 == GCD(Abs(a[1]), b[2])
        g2 == GCD(Abs(b[1]), a[2])
    IN  Rat((a[1] \div g1) * (b[1] \div g2), (a[2] \div g2) * (b[2] \div g1))
RDiv(a, b) == RMul(a, Rat(b[2], b[1]))
RLt(a, b) ==
    LET g == GCD(a[2], b[2])
    IN  a[1] * (b[2] \div g) < b[1] * (a[2] \div g)
RLe(a, b) == ~RLt(b, a)
RAbs(a) == <<Abs(a[1]), a[2]>>
RMin(a, b) == IF RLt(b, a) THEN b ELSE a
RMax(a, b) == IF RLt(a, b) THEN b ELSE a

\* np.floor of a rational
RFloor(a) == a[1] \div a[2]

\* np.around: round half to even
RAround(a) ==
    LET f == RFloor(a)
        twice == 2 * (a[1] - f * a[2])      \* 2 * fractional part * a[2]
    IN  IF twice < a[2] THEN f
        ELSE IF twice > a[2] THEN f + 1
        ELSE IF f % 2 = 0 THEN f ELSE f + 1

RECURSIVE RSum(_)
RSum(s) == IF s = <<>> THEN R(0) ELSE RAdd(Head(s), RSum(Tail(s)))

RECURSIVE SeqMin(_)
SeqMin(s) ==
    IF Len(s) = 1 THEN s[1]
    ELSE LET m == SeqMin(Tail(s)) IN IF s[1] < m THEN s[1] ELSE m

RECURSIVE SeqMax(_)
SeqMax(s) ==
    IF Len(s) = 1 THEN s[1]
    ELSE LET m == SeqMax(Tail(s)) IN IF s[1] > m THEN s[1] ELSE m

\* s[i] with a 0-based Python index i >= 0
At(s, i) == s[i + 1]

\* s[i] with Python's index rule: a negative i counts from the end
PyAt(s, i) == IF i < 0 THEN s[Len(s) + i + 1] ELSE s[i + 1]

\* whether Python index i is valid for s
PyValid(s, i) == -Len(s) <= i /\ i < Len(s)

----------------------------------------------------------------------------
(* Outcomes of an operation *)

NoError == "ok"
ErrDimensions == "ValueError: different dimensions"
ErrBelow == "ValueError: below interpolation range"
ErrAbove == "ValueError: above interpolation range"
ErrIndex == "IndexError"
ErrAssertion == "AssertionError"
ErrType == "TypeError"

\* op: the operation; q: the query points of a call, the sample counts
\* len(x), len(y) given to a constructor, the sample counts len(x), len(y)
\* held before an assignment to x or y; err: the error raised, if any;
\* out: the values returned; warn: whether the non-uniform x warning was
\* emitted; scalar: whether the value returned is the float out[1] rather
\* than an array
Outcome(op, q, err, out) ==
    [op |-> op, q |-> q, err |-> err, out |-> out, warn |-> FALSE,
     scalar |-> FALSE]

\* as_numeric(a): an array of one element is returned as a float, any other
\* array as it is
as_numeric(o) == [o EXCEPT !.scalar = (o.err = NoError /\ Len(o.out) = 1)]

----------------------------------------------------------------------------
(* colour.utilities helpers the interpolators call *)

\* interval(distribution): the distinct absolute differences of consecutive
\* elements, in increasing order; here as a set
interval(v) == {Abs(v[i + 1] - v[i]) : i \in 1..(Len(v) - 1)}

\* interval(v)[0]: the smallest difference; an IndexError when v has one element
HasInterval(v) == interval(v) # {}
interval0(v) == CHOOSE m \in interval(v) : \A d \in interval(v) : m <= d

\* the KernelInterpolator's x setter warns when interval(v).size != 1
NonUniformWarning(v) == Cardinality(interval(v)) # 1
Warned(o, v) == [o EXCEPT !.warn = NonUniformWarning(v)]

----------------------------------------------------------------------------
(* Kernel functions, on an exact rational distance *)

Kernels == {"kernel_nearest_neighbour", "kernel_linear", "kernel_cardinal_spline"}

kernel_nearest_neighbour(d) ==
    IF RLt(RAbs(d), <<1, 2>>) THEN R(1) ELSE R(0)

\* (kernel_linearSigned: a variant that tests and weighs x instead of
\* np.abs(x))
kernel_linearSigned(d) ==
    IF RLt(d, R(1)) THEN RSub(R(1), d) ELSE R(0)

kernel_linear(d) ==
    IF RLt(RAbs(d), R(1)) THEN RSub(R(1), RAbs(d)) ELSE R(0)

\* kernel_cardinal_spline(x, a, b)
kernel_cardinal_spline(d, a, b) ==
    LET x_abs == RAbs(d)
        x2 == RMul(x_abs, x_abs)
        x3 == RMul(x2, x_abs)
        \* (-6a - 9b + 12) x^3 + (6a + 12b - 18) x^2 - 2b + 6
        inner ==
            RAdd(RAdd(RMul(RAdd(RSub(RMul(R(-6), a), RMul(R(9), b)), R(12)), x3),
                      RMul(RSub(RAdd(RMul(R(6), a), RMul(R(12), b)), R(18)), x2)),
                 RAdd(RMul(R(-2), b), R(6)))
        \* (-6a - b) x^3 + (30a + 6b) x^2 + (-48a - 12b) x + 24a + 8b
        outer ==
            RAdd(RAdd(RMul(RSub(RMul(R(-6), a), b), x3),
                      RMul(RAdd(RMul(R(30), a), RMul(R(6), b)), x2)),
                 RAdd(RMul(RSub(RMul(R(-48), a), RMul(R(12), b)), x_abs),
                      RAdd(RMul(R(24), a), RMul(R(8), b))))
        v == IF RLt(x_abs, R(1)) THEN inner ELSE outer
    IN  IF RLe(R(2), x_abs) THEN R(0) ELSE RMul(<<1, 6>>, v)

\* np.sinc(x) = sin(pi x) / (pi x), an even function: 1 at 0, 0 at every
\* other integer, and at any other point an irrational number, kept as the
\* term sinc(|x|). A value is coef times the product of the terms in "at".
sinc(v) ==
    IF v = R(0) THEN [coef |-> R(1), at |-> <<>>]
    ELSE IF v[2] = 1 THEN [coef |-> R(0), at |-> <<>>]
    ELSE [coef |-> R(1), at |-> <<RAbs(v)>>]

\* the 0 that np.where puts outside the support
SincZero == [coef |-> R(0), at |-> <<>>]

\* np.sinc(x) * np.sinc(x / a)
SincMul(p, q) ==
    LET c == RMul(p.coef, q.coef)
    IN  [coef |-> c, at |-> IF c = R(0) THEN <<>> ELSE p.at \o q.at]

\* kernel_sinc(x, a)
kernel_sinc(d, a) ==
    IF RLt(RAbs(d), a) THEN sinc(d) ELSE SincZero

\* kernel_lanczos(x, a)
kernel_lanczos(d, a) ==
    IF RLt(RAbs(d), a) THEN SincMul(sinc(d), sinc(RDiv(d, a))) ELSE SincZero

\* a kernel function called with the arguments args = <<x>>, <<x, a>> or
\* <<x, a, b>>
KernelFunction(k, args) ==
    CASE k = "kernel_nearest_neighbour" -> kernel_nearest_neighbour(args[1])
      [] k = "kernel_linear" -> kernel_linear(args[1])
      [] k = "kernel_sinc" -> kernel_sinc(args[1], args[2])
      [] k = "kernel_lanczos" -> kernel_lanczos(args[1], args[2])
      [] k = "kernel_cardinal_spline" ->
            kernel_cardinal_spline(args[1], args[2], args[3])

KernelFunctionCall(k, args) ==
    /\ res' = Outcome(k, args, NoError, <<KernelFunction(k, args)>>)
    /\ UNCHANGED <<kind, x, y, kernelVars, spragueVars, nullVars, extrapVars>>
    /\ UNCHANGED evals

\* self._kernel(d, **self._kernel_args), kernel_args being empty: the
\* cardinal spline takes its defaults a = 0.5, b = 0.0
ApplyKernel(k, d) ==
    CASE k = "kernel_nearest_neighbour" -> kernel_nearest_neighbour(d)
      [] k = "kernel_linear" -> kernel_linear(d)
      [] k = "kernel_cardinal_spline" -> kernel_cardinal_spline(d, <<1, 2>>, R(0))

----------------------------------------------------------------------------
(* numpy padding, as the setters call it *)

\* np.pad(v, (w, w), 'linear_ramp', end_values=(lo, hi)): w values ramping
\* from lo to the first element, v, w values ramping from the last element
\* to hi
PadLinearRamp(v, w, lo, hi) ==
    [i \in 1..(Len(v) + 2 * w) |->
        IF i <= w THEN lo + ((i - 1) * (v[1] - lo)) \div w
        ELSE IF i <= w + Len(v) THEN v[i - w]
        ELSE hi - ((Len(v) + 2 * w - i) * (hi - v[Len(v)])) \div w]

\* position in v that position p of the reflected signal mirrors (0-based)
ReflectIndex(n, p) ==
    IF n = 1 THEN 0
    ELSE LET m == 2 * (n - 1)
             r == p % m
         IN  IF r < n THEN r ELSE m - r

\* np.pad(v, pad_width=(w, w), mode='reflect')
PadReflect(v, w) ==
    [i \in 1..(Len(v) + 2 * w) |-> At(v, ReflectIndex(Len(v), i - 1 - w))]

----------------------------------------------------------------------------
(* Inputs *)

\* n samples from origin o in steps of h
Uniform(o, h, n) == [i \in 1..n |-> o + (i - 1) * h]

\* n samples 0, 1, .., n - 2, n: the last step is twice the others
NonUniform(n) == [i \in 1..n |-> IF i = n THEN n ELSE i - 1]

\* ordered-by-x sample positions: a single sample, uniform ones (origin a
\* multiple of the step or not) and non-uniform ones
XArrays(lens) ==
    {Uniform(1, 1, n) : n \in lens \cap {1}}
        \cup {Uniform(o, h, n) : o \in 0..1, h \in 1..2, n \in lens \ {1}}
        \cup {NonUniform(n) : n \in lens \ {1, 2}}

\* sample values: for each length a rising ramp and a non-monotonic array,
\* 1 2 3 4 0 1 .. and 2 1 2 0 0 2 ..
Samples(c, n) == [i \in 1..n |-> (c * i * i + i) % 5]
YArrays(lens) == {Samples(c, n) : c \in 0..1, n \in lens}

Lens == 1..MaxLen
Windows == 0..MaxW

\* query points around and inside every sampled domain
Points == 0..(MaxLen + 1)

----------------------------------------------------------------------------
(* KernelInterpolator *)

\* x setter once the window is set: the padded x
KernelPadX(v, w) ==
    PadLinearRamp(v, w, SeqMin(v) - w * interval0(v), SeqMax(v) + w * interval0(v))

\* y setter once the window is set: np.pad(self._y, **self._padding_args)
KernelPadY(v, pad_width) == PadReflect(v, pad_width)

\* the window setter's second assignment, self.y = self.y, pads y with
\* self._padding_args, whose pad_width __init__ fixed
WindowPadWidth(w) == padding_args

\* __init__(x, y, window, kernel): the error it raises, if any
KernelInitError(xv, yv, w) ==
    IF w < 1 THEN ErrAssertion
    ELSE IF ~HasInterval(xv) THEN ErrIndex
    ELSE IF Len(xv) # Len(yv) THEN ErrDimensions
    ELSE NoError

KernelInit(xv, yv, w, k) ==
    /\ kind = "none"
    /\ LET err == KernelInitError(xv, yv, w) IN
       /\ res' = Warned(Outcome("init", <<Len(xv), Len(yv)>>, err, <<>>), xv)
       /\ IF err = NoError
          THEN /\ kind' = "kernel"
               /\ x' = xv
               /\ y' = yv
               /\ window' = w
               /\ padding_args' = w
               /\ kernel' = k
               /\ x_p' = KernelPadX(xv, w)
               /\ y_p' = KernelPadY(yv, w)
          ELSE UNCHANGED <<kind, x, y, kernelVars>>
    /\ UNCHANGED <<spragueVars, nullVars, extrapVars>>
    /\ UNCHANGED evals

\* x setter
KernelSetX(v) ==
    /\ kind = "kernel"
    /\ x' = v
    /\ IF HasInterval(v)
       THEN /\ x_p' = KernelPadX(v, window)
            /\ res' = Warned(Outcome("x", <<Len(x), Len(y)>>, NoError, <<>>), v)
       ELSE /\ UNCHANGED x_p
            /\ res' = Warned(Outcome("x", <<Len(x), Len(y)>>, ErrIndex, <<>>), v)
    /\ UNCHANGED <<kind, y, window, padding_args, kernel, y_p,
                   spragueVars, nullVars, extrapVars>>
    /\ UNCHANGED evals

\* y setter
KernelSetY(v) ==
    /\ kind = "kernel"
    /\ y' = v
    /\ y_p' = KernelPadY(v, padding_args)
    /\ res' = Outcome("y", <<Len(x), Len(y)>>, NoError, <<>>)
    /\ UNCHANGED <<kind, x, window, padding_args, kernel, x_p,
                   spragueVars, nullVars, extrapVars>>
    /\ UNCHANGED evals

\* window setter: assigns the window, then re-assigns x (which warns again
\* when x is not uniform), then y
KernelSetWindow(w) ==
    /\ kind = "kernel"
    /\ IF w < 1
       THEN /\ res' = Outcome("window", <<>>, ErrAssertion, <<>>)
            /\ UNCHANGED <<window, x_p, y_p>>
       ELSE /\ window' = w
            /\ IF HasInterval(x)
               THEN /\ x_p' = KernelPadX(x, w)
                    /\ y_p' = KernelPadY(y, WindowPadWidth(w))
                    /\ res' = Warned(Outcome("window", <<>>, NoError, <<>>), x)
               ELSE /\ res' = Warned(Outcome("window", <<>>, ErrIndex, <<>>), x)
                    /\ UNCHANGED <<x_p, y_p>>
    /\ UNCHANGED <<kind, x, y, padding_args, kernel,
                   spragueVars, nullVars, extrapVars>>
    /\ UNCHANGED evals

\* _validate_dimensions, then _validate_interpolation_range, shared by the
\* four interpolators: the error raised for the query qs, if any
ValidateDimensions == IF Len(x) # Len(y) THEN ErrDimensions ELSE NoError

\* a variant that also rejects the two ends of the domain
ValidateInterpolationRangeClosed(qs) ==
    IF \E i \in DOMAIN qs : qs[i] <= x[1] THEN ErrBelow
    ELSE IF \E i \in DOMAIN qs : qs[i] >= x[Len(x)] THEN ErrAbove
    ELSE NoError

ValidateInterpolationRange(qs) ==
    IF \E i \in DOMAIN qs : qs[i] < x[1] THEN ErrBelow
    ELSE IF \E i \in DOMAIN qs : qs[i] > x[Len(x)] THEN ErrAbove
    ELSE NoError

Validate(qs) ==
    IF ValidateDimensions # NoError THEN ValidateDimensions
    ELSE ValidateInterpolationRange(qs)

\* the 2 * window indexes into the padded y that _evaluate computes for q
KernelWindows(q) ==
    LET x_interval == interval0(x)
        x_f == RFloor(Rat(q, x_interval))
        clip_l == Rat(SeqMin(x_p), x_interval)
        clip_h == Rat(SeqMax(x_p), x_interval)
    IN  [i \in 1..(2 * window) |->
            RAround(RSub(RMin(RMax(R(x_f + i - window), clip_l), clip_h), clip_l))]

\* the kernel's argument for q and the padded sample at index w:
\* x / x_interval - windows - min(self._x_p) / x_interval
KernelDistance(q, w) ==
    Rat(q - w * interval0(x) - SeqMin(x_p), interval0(x))

\* the weighted sum _evaluate returns for q, windows being its indexes
KernelSum(q, windows) ==
    RSum([i \in DOMAIN windows |->
            RMul(R(At(y_p, windows[i])),
                 ApplyKernel(kernel, KernelDistance(q, windows[i])))])

KernelEvaluate(qs) ==
    LET err == Validate(qs) IN
    IF err # NoError THEN Outcome("call", qs, err, <<>>)
    ELSE IF ~HasInterval(x) THEN Outcome("call", qs, ErrIndex, <<>>)
    ELSE LET windows == [j \in DOMAIN qs |-> KernelWindows(qs[j])] IN
         IF \E j \in DOMAIN qs : \E i \in DOMAIN windows[j] :
                ~PyValid(y_p, windows[j][i])
         THEN Outcome("call", qs, ErrIndex, <<>>)
         ELSE Outcome("call", qs, NoError,
                      [j \in DOMAIN qs |-> KernelSum(qs[j], windows[j])])

\* __call__: np.atleast_1d makes a scalar query q the one-point query <<q>>
KernelCall(qs) ==
    /\ kind = "kernel"
    /\ res' = as_numeric(KernelEvaluate(qs))
    /\ UNCHANGED <<kind, x, y, kernelVars, spragueVars, nullVars, extrapVars>>
    /\ UNCHANGED evals

----------------------------------------------------------------------------
(* LinearInterpolator *)

\* __init__(x, y)
LinearInit(xv, yv) ==
    /\ kind = "none"
    /\ IF Len(xv) # Len(yv)
       THEN /\ res' = Outcome("init", <<Len(xv), Len(yv)>>, ErrDimensions, <<>>)
            /\ UNCHANGED <<kind, x, y>>
       ELSE /\ res' = Outcome("init", <<Len(xv), Len(yv)>>, NoError, <<>>)
            /\ kind' = "linear"
            /\ x' = xv
            /\ y' = yv
    /\ UNCHANGED <<kernelVars, spragueVars, nullVars, extrapVars>>
    /\ UNCHANGED evals

\* (LinearSetXDetached: a variant whose assignment does not reach an
\* Extrapolator wrapping the instance, as if that one held its own copy)
LinearSetXDetached(v) ==
    /\ kind = "linear"
    /\ x' = IF method = "none" THEN v ELSE x
    /\ res' = Outcome("x", <<Len(x), Len(y)>>, NoError, <<>>)
    /\ UNCHANGED <<kind, y, kernelVars, spragueVars, nullVars, extrapVars>>
    /\ UNCHANGED evals

\* x setter
LinearSetX(v) ==
    /\ kind = "linear"
    /\ x' = v
    /\ res' = Outcome("x", <<Len(x), Len(y)>>, NoError, <<>>)
    /\ UNCHANGED <<kind, y, kernelVars, spragueVars, nullVars, extrapVars>>
    /\ UNCHANGED evals

\* y setter
LinearSetY(v) ==
    /\ kind = "linear"
    /\ y' = v
    /\ res' = Outcome("y", <<Len(x), Len(y)>>, NoError, <<>>)
    /\ UNCHANGED <<kind, x, kernelVars, spragueVars, nullVars, extrapVars>>
    /\ UNCHANGED evals

\* (InterpStep: a variant that holds the sample to the left of q)
InterpStep(q) ==
    LET j == CHOOSE k \in DOMAIN x :
                 x[k] <= q /\ (k = Len(x) \/ q < x[k + 1])
    IN  R(y[j])

\* np.interp(q, self._x, self._y) for x[1] <= q <= x[Len(x)]: on the interval
\* [x_j, x_j+1] holding q, y_j + slope * (q - x_j); y_last at the last sample
Interp(q) ==
    LET j == CHOOSE k \in DOMAIN x :
                 x[k] <= q /\ (k = Len(x) \/ q < x[k + 1])
    IN  IF j = Len(x) THEN R(y[j])
        ELSE RAdd(RMul(Rat(y[j + 1] - y[j], x[j + 1] - x[j]), R(q - x[j])),
                  R(y[j]))

LinearEvaluate(qs) ==
    LET err == Validate(qs) IN
    Outcome("call", qs, err,
            IF err = NoError THEN [j \in DOMAIN qs |-> Interp(qs[j])] ELSE <<>>)

\* __call__
LinearCall(qs) ==
    /\ kind = "linear"
    /\ res' = as_numeric(LinearEvaluate(qs))
    /\ UNCHANGED <<kind, x, y, kernelVars, spragueVars, nullVars, extrapVars>>
    /\ UNCHANGED evals

----------------------------------------------------------------------------
(* SpragueInterpolator *)

SPRAGUE_C_COEFFICIENTS ==
    << <<884, -1960, 3033, -2648, 1080, -180>>,
       <<508, -540, 488, -367, 144, -24>>,
       <<-24, 144, -367, 488, -540, 508>>,
       <<-180, 1080, -2648, 3033, -1960, 884>> >>

\* (SpragueDotBy24: a variant with the divisor of the polynomial's
\* coefficients)
SpragueDotBy24(row, six) ==
    LET c == SPRAGUE_C_COEFFICIENTS[row + 1]
    IN  Rat(c[1] * six[1] + c[2] * six[2] + c[3] * six[3]
              + c[4] * six[4] + c[5] * six[5] + c[6] * six[6], 24)

\* np.dot(SPRAGUE_C_COEFFICIENTS[row], six) / 209, row counted from 0
SpragueDot(row, six) ==
    LET c == SPRAGUE_C_COEFFICIENTS[row + 1]
    IN  Rat(c[1] * six[1] + c[2] * six[2] + c[3] * six[3]
              + c[4] * six[4] + c[5] * six[5] + c[6] * six[6], 209)

\* x setter: the boundary-extended x
SpragueExtendX(v) ==
    LET value_interval == interval0(v)
    IN  <<v[1] - value_interval * 2, v[1] - value_interval>> \o v
            \o <<v[Len(v)] + value_interval, v[Len(v)] + value_interval * 2>>

\* (SpragueExtendYFirstSix: a variant that takes the upper rows over the
\* first six values too)
SpragueExtendYFirstSix(v) ==
    LET first == SubSeq(v, 1, 6)
    IN  <<SpragueDot(0, first), SpragueDot(1, first)>>
            \o [i \in DOMAIN v |-> R(v[i])]
            \o <<SpragueDot(2, first), SpragueDot(3, first)>>

\* y setter: the boundary-extended y
SpragueExtendY(v) ==
    LET first == SubSeq(v, 1, 6)
        last == SubSeq(v, Len(v) - 5, Len(v))
    IN  <<SpragueDot(0, first), SpragueDot(1, first)>>
            \o [i \in DOMAIN v |-> R(v[i])]
            \o <<SpragueDot(2, last), SpragueDot(3, last)>>

\* __init__(x, y): the error it raises, if any
SpragueInitError(xv, yv) ==
    IF ~HasInterval(xv) THEN ErrIndex
    ELSE IF Len(yv) < SpragueMin THEN ErrAssertion
    ELSE IF Len(xv) # Len(yv) THEN ErrDimensions
    ELSE NoError

SpragueInit(xv, yv) ==
    /\ kind = "none"
    /\ LET err == SpragueInitError(xv, yv) IN
       /\ res' = Outcome("init", <<Len(xv), Len(yv)>>, err, <<>>)
       /\ IF err = NoError
          THEN /\ kind' = "sprague"
               /\ x' = xv
               /\ y' = yv
               /\ xp' = SpragueExtendX(xv)
               /\ yp' = SpragueExtendY(yv)
          ELSE UNCHANGED <<kind, x, y, spragueVars>>
    /\ UNCHANGED <<kernelVars, nullVars, extrapVars>>
    /\ UNCHANGED evals

\* x setter
SpragueSetX(v) ==
    /\ kind = "sprague"
    /\ IF HasInterval(v)
       THEN /\ xp' = SpragueExtendX(v)
            /\ x' = v
            /\ res' = Outcome("x", <<Len(x), Len(y)>>, NoError, <<>>)
       ELSE /\ res' = Outcome("x", <<Len(x), Len(y)>>, ErrIndex, <<>>)
            /\ UNCHANGED <<x, xp>>
    /\ UNCHANGED <<kind, y, yp, kernelVars, nullVars, extrapVars>>
    /\ UNCHANGED evals

\* (SpragueSetYStoreFirst: a variant that stores y before the sample count
\* is checked)
SpragueSetYStoreFirst(v) ==
    /\ kind = "sprague"
    /\ y' = v
    /\ IF Len(v) >= SpragueMin
       THEN /\ yp' = SpragueExtendY(v)
            /\ res' = Outcome("y", <<Len(x), Len(y)>>, NoError, <<>>)
       ELSE /\ res' = Outcome("y", <<Len(x), Len(y)>>, ErrAssertion, <<>>)
            /\ UNCHANGED yp
    /\ UNCHANGED <<kind, x, xp, kernelVars, nullVars, extrapVars>>
    /\ UNCHANGED evals

\* y setter
SpragueSetY(v) ==
    /\ kind = "sprague"
    /\ IF Len(v) >= SpragueMin
       THEN /\ yp' = SpragueExtendY(v)
            /\ y' = v
            /\ res' = Outcome("y", <<Len(x), Len(y)>>, NoError, <<>>)
       ELSE /\ res' = Outcome("y", <<Len(x), Len(y)>>, ErrAssertion, <<>>)
            /\ UNCHANGED <<y, yp>>
    /\ UNCHANGED <<kind, x, xp, kernelVars, nullVars, extrapVars>>
    /\ UNCHANGED evals

\* np.searchsorted(self._xp, q): the number of elements of xp below q
SearchSorted(a, q) == Cardinality({k \in DOMAIN a : a[k] < q})

\* the stencil positions i - 2 .. i + 3 that _evaluate reads for q
\* (SpragueIndexShifted: a variant one interval further down)
SpragueIndexShifted(q) == SearchSorted(xp, q) - 2
SpragueIndex(q) == SearchSorted(xp, q) - 1
SpragueStencil(q) == [k \in 1..6 |-> SpragueIndex(q) + k - 3]

\* the fifth-order polynomial _evaluate returns for q
SpragueValue(q) ==
    LET i == SpragueIndex(q)
        X == Rat(q - PyAt(xp, i), PyAt(xp, i + 1) - PyAt(xp, i))
        r(k) == PyAt(yp, k)
        c(n, v) == RMul(R(n), v)
        S(s) == RDiv(RSum(s), R(24))
        a0p == r(i)
        a1p == S(<<c(2, r(i - 2)), c(-16, r(i - 1)), c(16, r(i + 1)),
                   c(-2, r(i + 2))>>)
        a2p == S(<<c(-1, r(i - 2)), c(16, r(i - 1)), c(-30, r(i)),
                   c(16, r(i + 1)), c(-1, r(i + 2))>>)
        a3p == S(<<c(-9, r(i - 2)), c(39, r(i - 1)), c(-70, r(i)),
                   c(66, r(i + 1)), c(-33, r(i + 2)), c(7, r(i + 3))>>)
        a4p == S(<<c(13, r(i - 2)), c(-64, r(i - 1)), c(126, r(i)),
                   c(-124, r(i + 1)), c(61, r(i + 2)), c(-12, r(i + 3))>>)
        a5p == S(<<c(-5, r(i - 2)), c(25, r(i - 1)), c(-50, r(i)),
                   c(50, r(i + 1)), c(-25, r(i + 2)), c(5, r(i + 3))>>)
        X2 == RMul(X, X)
        X3 == RMul(X2, X)
        X4 == RMul(X3, X)
        X5 == RMul(X4, X)
    IN  RSum(<<a0p, RMul(a1p, X), RMul(a2p, X2), RMul(a3p, X3),
               RMul(a4p, X4), RMul(a5p, X5)>>)

SpragueEvaluate(qs) ==
    LET err == Validate(qs) IN
    IF err # NoError THEN Outcome("call", qs, err, <<>>)
    ELSE IF \E j \in DOMAIN qs :
                \/ ~PyValid(xp, SpragueIndex(qs[j]) + 1)
                \/ \E k \in 1..6 : ~PyValid(yp, SpragueStencil(qs[j])[k])
         THEN Outcome("call", qs, ErrIndex, <<>>)
         ELSE Outcome("call", qs, NoError,
                      [j \in DOMAIN qs |-> SpragueValue(qs[j])])

\* __call__
SpragueCall(qs) ==
    /\ kind = "sprague"
    /\ res' = as_numeric(SpragueEvaluate(qs))
    /\ UNCHANGED <<kind, x, y, kernelVars, spragueVars, nullVars, extrapVars>>
    /\ UNCHANGED evals

----------------------------------------------------------------------------
(* NullInterpolator *)

\* the tolerances __init__ takes by default, 10e-7
DefaultTolerance == <<1, 1000000>>

\* __init__(x, y, absolute_tolerance, relative_tolerance, default)
NullInit(xv, yv, atol, rtol, dflt) ==
    /\ kind = "none"
    /\ IF Len(xv) # Len(yv)
       THEN /\ res' = Outcome("init", <<Len(xv), Len(yv)>>, ErrDimensions, <<>>)
            /\ UNCHANGED <<kind, x, y, nullVars>>
       ELSE /\ res' = Outcome("init", <<Len(xv), Len(yv)>>, NoError, <<>>)
            /\ kind' = "null"
            /\ x' = xv
            /\ y' = yv
            /\ absolute_tolerance' = atol
            /\ relative_tolerance' = rtol
            /\ default' = dflt
    /\ UNCHANGED <<kernelVars, spragueVars, extrapVars>>
    /\ UNCHANGED evals

\* x setter
NullSetX(v) ==
    /\ kind = "null"
    /\ x' = v
    /\ res' = Outcome("x", <<Len(x), Len(y)>>, NoError, <<>>)
    /\ UNCHANGED <<kind, y, kernelVars, spragueVars, nullVars, extrapVars>>
    /\ UNCHANGED evals

\* y setter
NullSetY(v) ==
    /\ kind = "null"
    /\ y' = v
    /\ res' = Outcome("y", <<Len(x), Len(y)>>, NoError, <<>>)
    /\ UNCHANGED <<kind, x, kernelVars, spragueVars, nullVars, extrapVars>>
    /\ UNCHANGED evals

\* absolute_tolerance setter
NullSetAbsoluteTolerance(v) ==
    /\ kind = "null"
    /\ absolute_tolerance' = v
    /\ res' = Outcome("absolute_tolerance", <<>>, NoError, <<>>)
    /\ UNCHANGED <<kind, x, y, relative_tolerance, default,
                   kernelVars, spragueVars, extrapVars>>
    /\ UNCHANGED evals

\* relative_tolerance setter
NullSetRelativeTolerance(v) ==
    /\ kind = "null"
    /\ relative_tolerance' = v
    /\ res' = Outcome("relative_tolerance", <<>>, NoError, <<>>)
    /\ UNCHANGED <<kind, x, y, absolute_tolerance, default,
                   kernelVars, spragueVars, extrapVars>>
    /\ UNCHANGED evals

\* default setter
NullSetDefault(v) ==
    /\ kind = "null"
    /\ default' = v
    /\ res' = Outcome("default", <<>>, NoError, <<>>)
    /\ UNCHANGED <<kind, x, y, absolute_tolerance, relative_tolerance,
                   kernelVars, spragueVars, extrapVars>>
    /\ UNCHANGED evals

\* closest_indexes(self._x, q): the first index of x closest to q
closest_indexes(q) ==
    CHOOSE k \in DOMAIN x :
        /\ \A m \in DOMAIN x : Abs(x[k] - q) <= Abs(x[m] - q)
        /\ \A m \in 1..(k - 1) : Abs(x[m] - q) > Abs(x[k] - q)

\* (iscloseScaledAbsolute: a variant that scales atol and adds rtol)
iscloseScaledAbsolute(a, b, rtol, atol) ==
    RLe(R(Abs(a - b)), RAdd(rtol, RMul(atol, R(Abs(b)))))

\* np.isclose(a, b, rtol, atol): |a - b| <= atol + rtol * |b|
isclose(a, b, rtol, atol) ==
    RLe(R(Abs(a - b)), RAdd(atol, RMul(rtol, R(Abs(b)))))

\* the value _evaluate returns for q
NullValue(q) ==
    LET k == closest_indexes(q)
    IN  IF isclose(x[k], q, absolute_tolerance, relative_tolerance)
        THEN R(y[k]) ELSE default

NullEvaluate(qs) ==
    LET err == Validate(qs) IN
    Outcome("call", qs, err,
            IF err = NoError THEN [j \in DOMAIN qs |-> NullValue(qs[j])] ELSE <<>>)

\* (NullCallInPlace: a variant that writes 0 over the samples whose query
\* misses the tolerance)
NullCallInPlace(qs) ==
    /\ kind = "null"
    /\ res' = as_numeric(NullEvaluate(qs))
    /\ y' = IF res'.err # NoError THEN y
            ELSE [k \in DOMAIN y |->
                     IF \E j \in DOMAIN qs :
                            closest_indexes(qs[j]) = k /\ res'.out[j] = default
                     THEN 0 ELSE y[k]]
    /\ UNCHANGED <<kind, x, kernelVars, spragueVars, nullVars, extrapVars>>
    /\ UNCHANGED evals

\* __call__
NullCall(qs) ==
    /\ kind = "null"
    /\ res' = as_numeric(NullEvaluate(qs))
    /\ UNCHANGED <<kind, x, y, kernelVars, spragueVars, nullVars, extrapVars>>
    /\ UNCHANGED evals

----------------------------------------------------------------------------
(* Extrapolator *)

\* self._interpolator(qs): the wrapped interpolator's __call__
InterpolatorEvaluate(qs) ==
    CASE kind = "kernel" -> KernelEvaluate(qs)
      [] kind = "linear" -> LinearEvaluate(qs)
      [] kind = "sprague" -> SpragueEvaluate(qs)
      [] kind = "null" -> NullEvaluate(qs)

\* value.lower() of the method setter, on the strings the model passes
Lower(s) ==
    CASE s \in {"Linear", "LINEAR", "linear"} -> "linear"
      [] s \in {"Constant", "CONSTANT", "constant"} -> "constant"
      [] s \in {"Cubic", "cubic"} -> "cubic"

\* is_numeric(value) on what the model passes as left / right: <<>> is None,
\* <<v>> the number v, and a longer tuple a list of numbers
is_numeric(value) == Len(value) = 1

\* __init__(interpolator, method, left, right), method being a string: the
\* setters run in the order method, right, left
ExtrapolatorInit(m, l, r) ==
    /\ kind # "none"
    /\ method = "none"
    /\ IF (r # <<>> /\ ~is_numeric(r)) \/ (l # <<>> /\ ~is_numeric(l))
       THEN /\ res' = Outcome("init", <<>>, ErrAssertion, <<>>)
            /\ UNCHANGED extrapVars
       ELSE /\ method' = Lower(m)
            /\ left' = l
            /\ right' = r
            /\ res' = Outcome("init", <<>>, NoError, <<>>)
    /\ UNCHANGED <<kind, x, y, kernelVars, spragueVars, nullVars>>
    /\ UNCHANGED evals

\* method setter; value is [is_string |-> ..., text |-> ...]
ExtrapolatorSetMethod(value) ==
    /\ kind # "none"
    /\ method # "none"
    /\ IF value.is_string
       THEN /\ method' = Lower(value.text)
            /\ res' = Outcome("method", <<>>, NoError, <<>>)
       ELSE /\ res' = Outcome("method", <<>>, ErrAssertion, <<>>)
            /\ UNCHANGED method
    /\ UNCHANGED <<kind, x, y, kernelVars, spragueVars, nullVars, left, right>>
    /\ UNCHANGED evals

\* left setter
ExtrapolatorSetLeft(value) ==
    /\ kind # "none"
    /\ method # "none"
    /\ IF value = <<>> \/ is_numeric(value)
       THEN /\ left' = value
            /\ res' = Outcome("left", <<>>, NoError, <<>>)
       ELSE /\ res' = Outcome("left", <<>>, ErrAssertion, <<>>)
            /\ UNCHANGED left
    /\ UNCHANGED <<kind, x, y, kernelVars, spragueVars, nullVars, method, right>>
    /\ UNCHANGED evals

\* right setter
ExtrapolatorSetRight(value) ==
    /\ kind # "none"
    /\ method # "none"
    /\ IF value = <<>> \/ is_numeric(value)
       THEN /\ right' = value
            /\ res' = Outcome("right", <<>>, NoError, <<>>)
       ELSE /\ res' = Outcome("right", <<>>, ErrAssertion, <<>>)
            /\ UNCHANGED right
    /\ UNCHANGED <<kind, x, y, kernelVars, spragueVars, nullVars, method, left>>
    /\ UNCHANGED evals

\* the positions a boolean mask selects, in order: x[mask]
RECURSIVE Select(_, _)
Select(mask, i) ==
    IF i > Len(mask) THEN <<>>
    ELSE IF mask[i] THEN <<i>> \o Select(mask, i + 1)
    ELSE Select(mask, i + 1)

\* the linear continuation below xi[0] and above xi[-1]
\* (LinearLeftFlat: a variant that drops the slope)
LinearLeftFlat(q) == R(y[1])
LinearLeft(q) ==
    RAdd(R(y[1]), RMul(R(q - x[1]), Rat(y[2] - y[1], x[2] - x[1])))
LinearRight(q) ==
    RAdd(R(y[Len(y)]),
         RMul(R(q - x[Len(x)]),
              Rat(y[Len(y)] - y[Len(y) - 1], x[Len(x)] - x[Len(x) - 1])))

\* y = np.empty_like(x): an element holds whatever the memory held, one of
\* these values
Uninitialised == {R(0), R(-7)}

\* the arrays np.empty_like can return for the query qs
EmptyLike(qs) == [DOMAIN qs -> Uninitialised]

\* the value the method's branch leaves for an out-of-range q, e being the
\* element np.empty_like made: neither branch runs for another method
MethodLeft(q, e) ==
    IF method = "linear" THEN LinearLeft(q)
    ELSE IF method = "constant" THEN R(y[1]) ELSE e
MethodRight(q, e) ==
    IF method = "linear" THEN LinearRight(q)
    ELSE IF method = "constant" THEN R(y[Len(y)]) ELSE e

\* the value stored for a q below xi[0] / above xi[-1] once the overrides
\* have been applied
ExtrapolateLeft(q, e) == IF left # <<>> THEN left[1] ELSE MethodLeft(q, e)
ExtrapolateRight(q, e) == IF right # <<>> THEN right[1] ELSE MethodRight(q, e)

\* the method 'linear' subscripts xi[1], yi[1], xi[-2], yi[-2]
LinearSubscriptsValid ==
    /\ PyValid(x, 1) /\ PyValid(y, 1) /\ PyValid(x, -2) /\ PyValid(y, -2)

\* _evaluate, empty being the array np.empty_like returned
ExtrapolatorEvaluate(qs, empty) ==
    LET Below(q) == q < x[1]
        Above(q) == q > x[Len(x)]
        Inside(q) == q >= x[1] /\ q <= x[Len(x)]
        in_range == Select([j \in DOMAIN qs |-> Inside(qs[j])], 1)
        inner == InterpolatorEvaluate([k \in DOMAIN in_range |-> qs[in_range[k]]])
        pos(j) == CHOOSE k \in DOMAIN in_range : in_range[k] = j
    IN  IF method = "linear" /\ ~LinearSubscriptsValid
        THEN Outcome("extrapolate", qs, ErrIndex, <<>>)
        ELSE IF inner.err # NoError
        THEN Outcome("extrapolate", qs, inner.err, <<>>)
        ELSE Outcome("extrapolate", qs, NoError,
                [j \in DOMAIN qs |->
                    IF Inside(qs[j]) THEN inner.out[pos(j)]
                    ELSE IF Below(qs[j]) THEN ExtrapolateLeft(qs[j], empty[j])
                    ELSE ExtrapolateRight(qs[j], empty[j])])

\* __call__
ExtrapolatorCall(qs) ==
    /\ kind # "none"
    /\ method # "none"
    /\ \E empty \in EmptyLike(qs) :
           res' = as_numeric(ExtrapolatorEvaluate(qs, empty))
    /\ UNCHANGED <<kind, x, y, kernelVars, spragueVars, nullVars, extrapVars>>
    /\ UNCHANGED evals

----------------------------------------------------------------------------
(* lagrange_coefficients *)

\* the largest degree n given to lagrange_coefficients
MaxN == 4

\* basis of the j-th coefficient (j from 0): (r - r_i[i]) / (r_i[j] - r_i[i])
\* for i in 0..n-1, i # j, in order
LagrangeBasis(r, n, j) ==
    [k \in 1..(n - 1) |->
        LET i == IF k - 1 < j THEN k - 1 ELSE k
        IN  RDiv(RSub(r, R(i)), R(j - i))]

\* reduce(lambda x, y: x * y, basis) of a non-empty basis
RECURSIVE Reduce(_)
Reduce(basis) ==
    IF Len(basis) = 1 THEN basis[1]
    ELSE RMul(Reduce(SubSeq(basis, 1, Len(basis) - 1)), basis[Len(basis)])

\* lagrange_coefficients(r, n): reduce without an initial value raises
\* TypeError on an empty basis
lagrange_coefficients(r, n) ==
    IF \E j \in 0..(n - 1) : LagrangeBasis(r, n, j) = <<>>
    THEN Outcome("lagrange", <<r, n>>, ErrType, <<>>)
    ELSE Outcome("lagrange", <<r, n>>, NoError,
                 [j \in 1..n |-> Reduce(LagrangeBasis(r, n, j - 1))])

LagrangeCall(r, n) ==
    /\ res' = lagrange_coefficients(r, n)
    /\ UNCHANGED <<kind, x, y, kernelVars, spragueVars, nullVars, extrapVars>>
    /\ UNCHANGED evals

----------------------------------------------------------------------------
(* cvd_matrix_Machado2010 *)

Deficiencies == {"Protanomaly", "Deuteranomaly", "Tritanomaly"}

\* sorted(matrices.keys()): the tabulated severities 0.0, 0.1 .. 1.0
TabulatedSeverities == [k \in 1..11 |-> Rat(k - 1, 10)]

\* CVD_MATRICES_MACHADO_2010[deficiency], in the order of its sorted
\* severities: a table of matrices, each a tuple of entries. The entries are
\* stand-ins for the published ones: a table per deficiency, neither linear
\* nor monotonic in the severity
CVD_MATRICES_MACHADO_2010(deficiency) ==
    LET c == CASE deficiency = "Protanomaly" -> 1
               [] deficiency = "Deuteranomaly" -> 2
               [] deficiency = "Tritanomaly" -> 3
    IN  [k \in 1..11 |->
            [e \in 1..2 |-> R(((c + e) * (k - 1) * (k - 1) + k - 1) % 5)]]

\* (searchsortedRight: a variant with side='right')
searchsortedRight(a, v) == Cardinality({k \in DOMAIN a : RLe(a[k], v)})

\* np.searchsorted(a, v), side='left', on rationals
searchsorted(a, v) == Cardinality({k \in DOMAIN a : RLt(a[k], v)})

Min(a, b) == IF a < b THEN a ELSE b

\* cvd_matrix_Machado2010(deficiency, severity)
cvd_matrix_Machado2010(deficiency, severity) ==
    LET matrices == CVD_MATRICES_MACHADO_2010(deficiency)
        samples == TabulatedSeverities
        index == Min(searchsorted(samples, severity), Len(samples) - 1)
        a == At(samples, index)
        b == At(samples, Min(index + 1, Len(samples) - 1))
        m1 == At(matrices, index)
        m2 == At(matrices, Min(index + 1, Len(samples) - 1))
    IN  IF a = b THEN m1
        ELSE [e \in DOMAIN m1 |->
                 RAdd(m1[e],
                      RMul(RSub(severity, a),
                           RDiv(RSub(m2[e], m1[e]), RSub(b, a))))]

CvdCall(deficiency, severity) ==
    /\ res' = Outcome(deficiency, <<severity>>, NoError,
                      cvd_matrix_Machado2010(deficiency, severity))
    /\ UNCHANGED <<kind, x, y, kernelVars, spragueVars, nullVars, extrapVars>>
    /\ UNCHANGED evals

NoOutcome == Outcome("none", <<>>, NoError, <<>>)

----------------------------------------------------------------------------
(* Evaluations in progress: the steps of __call__ and _evaluate, each thread
   holding its locals *)

Threads == {"t1", "t2"}

\* a thread that is not evaluating
Idle == [pc |-> "idle", target |-> "none", q |-> <<>>, y |-> <<>>,
         out |-> NoOutcome]

\* the points the interpolator is asked for: the whole query, or, called by
\* the Extrapolator, x[in_range]
InnerQuery(e) ==
    IF e.target = "interpolator" THEN e.q
    ELSE LET in_range ==
                 Select([j \in DOMAIN e.q |->
                            e.q[j] >= x[1] /\ e.q[j] <= x[Len(x)]], 1)
         IN  [k \in DOMAIN in_range |-> e.q[in_range[k]]]

\* the outcome of an evaluation that raises err
Raised(e, err) ==
    Outcome(IF e.target = "interpolator" THEN "call" ELSE "extrapolate",
            e.q, err, <<>>)

\* __call__ is entered with the query qs
EvalBegin(t, target, qs) ==
    /\ evals[t].pc = "idle"
    /\ kind # "none"
    /\ target = "extrapolator" => method # "none"
    /\ evals' = [evals EXCEPT ![t] =
                    [pc |-> IF target = "extrapolator" THEN "outer"
                            ELSE "dimensions",
                     target |-> target, q |-> qs, y |-> <<>>,
                     out |-> NoOutcome]]
    /\ UNCHANGED <<kind, x, y, kernelVars, spragueVars, nullVars, extrapVars,
                   res>>

\* the output array of Extrapolator._evaluate after the method's branch and
\* the overrides, empty being the array np.empty_like returned
OuterValues(qs, empty) ==
    [j \in DOMAIN qs |->
        IF qs[j] < x[1] THEN ExtrapolateLeft(qs[j], empty[j])
        ELSE IF qs[j] > x[Len(x)] THEN ExtrapolateRight(qs[j], empty[j])
        ELSE empty[j]]

\* (EvalOuterSharedBuffer: a variant whose output array is one buffer that
\* the evaluations in progress share)
EvalOuterSharedBuffer(t) ==
    /\ evals[t].pc = "outer"
    /\ \E empty \in EmptyLike(evals[t].q) :
           evals' =
               IF method = "linear" /\ ~LinearSubscriptsValid
               THEN [evals EXCEPT ![t].pc = "done",
                                  ![t].out = Raised(evals[t], ErrIndex)]
               ELSE [u \in Threads |->
                        IF u = t
                        THEN [evals[t] EXCEPT
                                  !.pc = "dimensions",
                                  !.y = OuterValues(evals[t].q, empty)]
                        ELSE IF Len(evals[u].y) = Len(evals[t].q)
                        THEN [evals[u] EXCEPT
                                  !.y = OuterValues(evals[t].q, empty)]
                        ELSE evals[u]]
    /\ UNCHANGED <<kind, x, y, kernelVars, spragueVars, nullVars, extrapVars,
                   res>>

\* Extrapolator._evaluate up to the call of the interpolator
EvalOuter(t) ==
    /\ evals[t].pc = "outer"
    /\ \E empty \in EmptyLike(evals[t].q) :
           evals' =
               IF method = "linear" /\ ~LinearSubscriptsValid
               THEN [evals EXCEPT ![t].pc = "done",
                                  ![t].out = Raised(evals[t], ErrIndex)]
               ELSE [evals EXCEPT ![t].pc = "dimensions",
                                  ![t].y = OuterValues(evals[t].q, empty)]
    /\ UNCHANGED <<kind, x, y, kernelVars, spragueVars, nullVars, extrapVars,
                   res>>

\* _validate_dimensions
EvalDimensions(t) ==
    /\ evals[t].pc = "dimensions"
    /\ evals' =
           IF ValidateDimensions # NoError
           THEN [evals EXCEPT ![t].pc = "done",
                              ![t].out = Raised(evals[t], ValidateDimensions)]
           ELSE [evals EXCEPT ![t].pc = "range"]
    /\ UNCHANGED <<kind, x, y, kernelVars, spragueVars, nullVars, extrapVars,
                   res>>

\* _validate_interpolation_range
EvalRange(t) ==
    /\ evals[t].pc = "range"
    /\ LET err == ValidateInterpolationRange(InnerQuery(evals[t])) IN
       evals' =
           IF err # NoError
           THEN [evals EXCEPT ![t].pc = "done",
                              ![t].out = Raised(evals[t], err)]
           ELSE [evals EXCEPT ![t].pc = "compute"]
    /\ UNCHANGED <<kind, x, y, kernelVars, spragueVars, nullVars, extrapVars,
                   res>>

\* the value __call__ returns once the interpolator has computed inner: its
\* own result, or the Extrapolator's array with y[in_range] assigned
Returned(e, inner) ==
    IF e.target = "interpolator" THEN as_numeric(inner)
    ELSE IF inner.err # NoError THEN Raised(e, inner.err)
    ELSE LET Inside(j) == e.q[j] >= x[1] /\ e.q[j] <= x[Len(x)]
             before(j) == Cardinality({i \in 1..j : Inside(i)})
         IN  as_numeric(Outcome("extrapolate", e.q, NoError,
                 [j \in DOMAIN e.q |->
                     IF Inside(j) THEN inner.out[before(j)] ELSE e.y[j]]))

\* (EvalComputeInPlace: a variant in which the NullInterpolator writes the
\* default into self._y itself, as 0, instead of into a copy)
EvalComputeInPlace(t) ==
    /\ evals[t].pc = "compute"
    /\ LET inner == InterpolatorEvaluate(InnerQuery(evals[t])) IN
       /\ evals' = [evals EXCEPT ![t].pc = "done",
                                 ![t].out = Returned(evals[t], inner)]
       /\ y' = IF kind # "null" \/ inner.err # NoError THEN y
               ELSE [k \in DOMAIN y |->
                        IF \E j \in DOMAIN inner.q :
                               /\ closest_indexes(inner.q[j]) = k
                               /\ inner.out[j] = default
                        THEN 0 ELSE y[k]]
    /\ UNCHANGED <<kind, x, kernelVars, spragueVars, nullVars, extrapVars,
                   res>>

\* the rest of the interpolator's _evaluate, and the return
EvalCompute(t) ==
    /\ evals[t].pc = "compute"
    /\ LET inner == InterpolatorEvaluate(InnerQuery(evals[t])) IN
       evals' = [evals EXCEPT ![t].pc = "done",
                              ![t].out = Returned(evals[t], inner)]
    /\ UNCHANGED <<kind, x, y, kernelVars, spragueVars, nullVars, extrapVars,
                   res>>

\* the caller has taken the value
EvalReturn(t) ==
    /\ evals[t].pc = "done"
    /\ evals' = [evals EXCEPT ![t] = Idle]
    /\ UNCHANGED <<kind, x, y, kernelVars, spragueVars, nullVars, extrapVars,
                   res>>

----------------------------------------------------------------------------
(* Specifications *)

Init ==
    /\ kind = "none"
    /\ x = <<>>
    /\ y = <<>>
    /\ window = 0
    /\ padding_args = 0
    /\ kernel = "none"
    /\ x_p = <<>>
    /\ y_p = <<>>
    /\ xp = <<>>
    /\ yp = <<>>
    /\ absolute_tolerance = R(0)
    /\ relative_tolerance = R(0)
    /\ default = NaN
    /\ method = "none"
    /\ left = <<>>
    /\ right = <<>>
    /\ res = NoOutcome
    /\ evals = [t \in Threads |-> Idle]

Queries1 == {<<q>> : q \in Points}

NextKernel ==
    \/ \E xv \in XArrays(Lens), yv \in YArrays(Lens), w \in Windows, k \in Kernels :
           KernelInit(xv, yv, w, k)
    \/ \E v \in XArrays(Lens) : KernelSetX(v)
    \/ \E v \in YArrays(Lens) : KernelSetY(v)
    \/ \E w \in Windows : KernelSetWindow(w)
    \/ \E qs \in Queries1 : KernelCall(qs)

SpecKernel == Init /\ [][NextKernel]_vars

\* sample counts around the least the Sprague method accepts
SpragueLens == (SpragueMin - 1)..(SpragueMin + MaxLen - 2)
SpragueYArrays == {Samples(c, n) : c \in 0..3, n \in SpragueLens}

\* every integer point of the sampled domain, and one on each side
DomainPoints == IF x = <<>> THEN {} ELSE (x[1] - 1)..(x[Len(x)] + 1)

NextSprague ==
    \/ \E xv \in XArrays(SpragueLens), yv \in SpragueYArrays : SpragueInit(xv, yv)
    \/ \E v \in XArrays(SpragueLens) : SpragueSetX(v)
    \/ \E v \in SpragueYArrays : SpragueSetY(v)
    \/ \E q \in DomainPoints : SpragueCall(<<q>>)

SpecSprague == Init /\ [][NextSprague]_vars

\* the points next to the two ends of the sampled domain
EndPoints ==
    IF x = <<>> THEN {}
    ELSE ((x[1] - 1)..(x[1] + 1)) \cup ((x[Len(x)] - 1)..(x[Len(x)] + 1))

\* one point, the first sample with another point, a point on each side
EndQueries ==
    IF x = <<>> THEN {}
    ELSE {<<q>> : q \in EndPoints} \cup {<<x[1], q>> : q \in EndPoints}
            \cup {<<x[1] - 1, x[Len(x)] + 1>>}

\* the four interpolators, called directly
NextInterp ==
    \/ \E xv \in XArrays(Lens), yv \in YArrays(Lens), w \in Windows \ {0} :
           KernelInit(xv, yv, w, "kernel_linear")
    \/ \E v \in XArrays(Lens) : KernelSetX(v)
    \/ \E v \in YArrays(Lens) : KernelSetY(v)
    \/ \E w \in Windows \ {0} : KernelSetWindow(w)
    \/ \E xv \in XArrays(Lens), yv \in YArrays(Lens) : LinearInit(xv, yv)
    \/ \E v \in XArrays(Lens) : LinearSetX(v)
    \/ \E v \in YArrays(Lens) : LinearSetY(v)
    \/ \E xv \in XArrays(Lens), yv \in YArrays(Lens) :
           NullInit(xv, yv, DefaultTolerance, DefaultTolerance, NaN)
    \/ \E v \in XArrays(Lens) : NullSetX(v)
    \/ \E v \in YArrays(Lens) : NullSetY(v)
    \/ \E xv \in XArrays(SpragueLens \cup {1}), yv \in YArrays(SpragueLens) :
           SpragueInit(xv, yv)
    \/ \E v \in XArrays(SpragueLens) : SpragueSetX(v)
    \/ \E v \in YArrays(SpragueLens) : SpragueSetY(v)
    \/ \E qs \in EndQueries : KernelCall(qs)
    \/ \E qs \in EndQueries : LinearCall(qs)
    \/ \E qs \in EndQueries : SpragueCall(qs)
    \/ \E qs \in EndQueries : NullCall(qs)

SpecInterp == Init /\ [][NextInterp]_vars

\* override values an Extrapolator is given: unset, or a number
Overrides == {<<>>, <<R(9)>>}
Methods == {"linear", "constant"}

\* points on both sides of the sampled domain and at its two ends
OuterPoints ==
    IF x = <<>> THEN {}
    ELSE ((x[1] - 2)..x[1]) \cup (x[Len(x)]..(x[Len(x)] + 2))

\* one point, or two points: both on one side, one on each side, or an end of
\* the domain together with a point outside it
OuterQueries ==
    IF x = <<>> THEN {}
    ELSE {<<q>> : q \in OuterPoints}
            \cup {<<x[1] - 2, x[1] - 1>>, <<x[1] - 1, x[Len(x)] + 1>>,
                  <<x[1] - 1, x[1]>>, <<x[Len(x)], x[Len(x)] + 1>>}

\* an interpolator, constructed and then wrapped by an Extrapolator
NextExtrap ==
    \/ \E xv \in XArrays(Lens), yv \in YArrays(Lens) : LinearInit(xv, yv)
    \/ \E xv \in XArrays(Lens), yv \in YArrays(Lens) :
           NullInit(xv, yv, DefaultTolerance, DefaultTolerance, NaN)
    \/ \E xv \in XArrays(Lens), yv \in YArrays(Lens), w \in Windows \ {0} :
           KernelInit(xv, yv, w, "kernel_linear")
    \/ \E xv \in XArrays({SpragueMin}), yv \in YArrays({SpragueMin}) :
           SpragueInit(xv, yv)
    \/ \E m \in Methods, l \in Overrides, r \in Overrides : ExtrapolatorInit(m, l, r)
    \/ \E qs \in OuterQueries : ExtrapolatorCall(qs)

SpecExtrap == Init /\ [][NextExtrap]_vars

\* methods in several letter cases, and one that is neither method
MethodStrings == {"Linear", "CONSTANT", "Cubic"}

\* values assigned to method: strings, and the integer 5
MethodValues ==
    {[is_string |-> TRUE, text |-> m] : m \in MethodStrings}
        \cup {[is_string |-> FALSE, text |-> "5"]}

\* values assigned to left / right: None, a number, a list of two numbers
OverrideValues == Overrides \cup {<<R(1), R(2)>>}

\* x and y arrays that only an assignment gives the wrapped interpolator:
\* an x beyond every x it can be constructed with, and a falling y
ReplacedX == {Uniform(2 * MaxLen + 1, 1, n) : n \in Lens \ {1}}
ReplacedY == {[i \in 1..n |-> 9 - i] : n \in Lens \ {1}}

\* a LinearInterpolator wrapped by an Extrapolator, with the setters of both
NextWrapped ==
    \/ \E xv \in XArrays(Lens), yv \in YArrays(Lens) : LinearInit(xv, yv)
    \/ \E v \in XArrays(Lens) \cup ReplacedX : LinearSetX(v)
    \/ \E v \in YArrays(Lens) \cup ReplacedY : LinearSetY(v)
    \/ \E m \in MethodStrings, l \in OverrideValues, r \in OverrideValues :
           ExtrapolatorInit(m, l, r)
    \/ \E value \in MethodValues : ExtrapolatorSetMethod(value)
    \/ \E value \in OverrideValues : ExtrapolatorSetLeft(value)
    \/ \E value \in OverrideValues : ExtrapolatorSetRight(value)
    \/ \E qs \in OuterQueries : ExtrapolatorCall(qs)

SpecWrapped == Init /\ [][NextWrapped]_vars

\* y values on a line: y_j = c + m * x_j
Affine(c, m, xv) == [j \in DOMAIN xv |-> c + m * xv[j]]
Intercepts == {0, 3}
Slopes == {-2, 1}

\* uniformly spaced x of the Sprague lengths
UniformXArrays ==
    {Uniform(o, h, n) : o \in 0..1, h \in 1..2, n \in SpragueLens \ {SpragueMin - 1}}

\* a SpragueInterpolator over samples of a line
NextAffine ==
    \/ \E xv \in UniformXArrays, c \in Intercepts, m \in Slopes :
           SpragueInit(xv, Affine(c, m, xv))
    \/ \E c \in Intercepts, m \in Slopes :
           x # <<>> /\ SpragueSetY(Affine(c, m, x))
    \/ \E q \in DomainPoints : SpragueCall(<<q>>)

SpecAffine == Init /\ [][NextAffine]_vars

\* severities in steps of 1/40, from below 0 to above 1
Severities == {Rat(j, 40) : j \in (-4)..48}

NextCvd ==
    \E deficiency \in Deficiencies, severity \in Severities :
        CvdCall(deficiency, severity)

SpecCvd == Init /\ [][NextCvd]_vars

\* samples two apart, so that a point of the domain lies between samples
SpacedX(n) == Uniform(0, 2, n)

\* queries below, inside and above the domain, alone and together
SpacedQueries ==
    IF x = <<>> THEN {}
    ELSE {<<x[1] - 1>>, <<x[1] + 1>>, <<x[Len(x)] + 1>>, <<x[1] - 1, x[1] + 1>>}

\* one interpolator or Extrapolator, no assignment, and the evaluations of
\* the threads, interleaved step by step
NextConcurrent ==
    \/ KernelInit(SpacedX(MaxLen), Samples(1, MaxLen), 1, "kernel_linear")
    \/ \E n \in {1, MaxLen} : LinearInit(SpacedX(n), Samples(1, n))
    \/ SpragueInit(SpacedX(SpragueMin), Samples(1, SpragueMin))
    \/ NullInit(SpacedX(MaxLen), Samples(1, MaxLen),
                DefaultTolerance, DefaultTolerance, NaN)
    \/ \E m \in MethodStrings, l \in Overrides :
           /\ \A t \in Threads : evals[t].pc = "idle"
           /\ ExtrapolatorInit(m, l, <<>>)
    \/ \E t \in Threads, qs \in SpacedQueries :
           EvalBegin(t, "interpolator", qs)
    \/ \E t \in Threads, qs \in SpacedQueries :
           EvalBegin(t, "extrapolator", qs)
    \/ \E t \in Threads : EvalOuter(t)
    \/ \E t \in Threads : EvalDimensions(t)
    \/ \E t \in Threads : EvalRange(t)
    \/ \E t \in Threads : EvalCompute(t)
    \/ \E t \in Threads : EvalReturn(t)

SpecConcurrent == Init /\ [][NextConcurrent]_vars

\* tolerances a NullInterpolator is given: none, a half, the default
Tolerances == {R(0), <<1, 2>>, DefaultTolerance}
Defaults == {NaN, R(7)}

\* the NullInterpolator with its tolerances and default
NextNull ==
    \/ \E xv \in XArrays(Lens), yv \in YArrays(Lens),
          atol \in Tolerances, rtol \in Tolerances, dflt \in Defaults :
           NullInit(xv, yv, atol, rtol, dflt)
    \/ \E v \in XArrays(Lens) : NullSetX(v)
    \/ \E v \in YArrays(Lens) : NullSetY(v)
    \/ \E v \in Tolerances : NullSetAbsoluteTolerance(v)
    \/ \E v \in Tolerances : NullSetRelativeTolerance(v)
    \/ \E v \in Defaults : NullSetDefault(v)
    \/ \E q \in DomainPoints : NullCall(<<q>>)

SpecNull == Init /\ [][NextNull]_vars

\* points r: integers, halves and tenths around the stencil 0..n-1
LagrangePoints == {Rat(a, b) : a \in (-MaxN)..(3 * MaxN), b \in {1, 2, 10}}

NextLagrange == \E r \in LagrangePoints, n \in 0..MaxN : LagrangeCall(r, n)

SpecLagrange == Init /\ [][NextLagrange]_vars

(* The kernel functions, called on their own *)

MaxRadius == 3

KernelFunctions ==
    Kernels \cup {"kernel_sinc", "kernel_lanczos"}

\* distances in steps of 1/4, to beyond the largest radius
Distances ==
    {Rat(n, 4) : n \in (-(4 * MaxRadius + 4))..(4 * MaxRadius + 4)}

\* the a of kernel_sinc and kernel_lanczos (default 3)
Radii == {R(a) : a \in 1..MaxRadius}

\* the a and b of kernel_cardinal_spline (defaults 0.5 and 0)
SplineA == {R(0), <<1, 2>>, R(1)}
SplineB == {R(0), R(1)}

KernelFunctionArgs(k) ==
    CASE k \in {"kernel_nearest_neighbour", "kernel_linear"} ->
            {<<d>> : d \in Distances}
      [] k \in {"kernel_sinc", "kernel_lanczos"} ->
            {<<d, a>> : d \in Distances, a \in Radii}
      [] k = "kernel_cardinal_spline" ->
            {<<d, a, b>> : d \in Distances, a \in SplineA, b \in SplineB}

NextKernelFunction ==
    \E k \in KernelFunctions :
        \E args \in KernelFunctionArgs(k) : KernelFunctionCall(k, args)

SpecKernelFunction == Init /\ [][NextKernelFunction]_vars

----------------------------------------------------------------------------
(* Claims about the KernelInterpolator *)

\* x is uniformly spaced
IsUniform(v) == Cardinality(interval(v)) = 1

\* the query points inside [x_min, x_max]
InRange(q) == x[1] <= q /\ q <= x[Len(x)]

\* C1: whenever the KernelInterpolator holds an x of at least two samples
\* (every x and window assignment so far has taken effect), the padded x is
\* x linearly extended by the current window on each side, the padded y is y
\* reflected by the current window on each side, and both have
\* len + 2 * window elements.
C1_PaddedArraysFollowWindow ==
    (kind = "kernel" /\ HasInterval(x)) =>
        /\ x_p = KernelPadX(x, window)
        /\ y_p = PadReflect(y, window)
        /\ Len(x_p) = Len(x) + 2 * window
        /\ Len(y_p) = Len(y) + 2 * window

\* C2: in every state of the KernelInterpolator with len(x) = len(y) (x of
\* at least two samples), each of the 2 * window indexes computed for an
\* in-range query point is a position 0..len(padded y) - 1.
C2_WindowIndexesInsidePaddedY ==
    (kind = "kernel" /\ HasInterval(x) /\ Len(x) = Len(y)) =>
        \A q \in Points : InRange(q) =>
            \A i \in 1..(2 * window) :
                /\ 0 <= KernelWindows(q)[i]
                /\ KernelWindows(q)[i] < Len(y_p)

\* C9: with a uniformly spaced x (any origin), the padded arrays built for
\* the current window and a kernel that is 1 at 0 and 0 at the other
\* integers, a successful evaluation at a sample point x_j returns y_j.
C9_KernelReproducesSamples ==
    (/\ kind = "kernel"
     /\ res.op = "call"
     /\ res.err = NoError
     /\ IsUniform(x)
     /\ window = padding_args) =>
        \A j \in DOMAIN x : res.q[1] = x[j] => res.out[1] = R(y[j])

----------------------------------------------------------------------------
(* Claims about the Extrapolator *)

\* q lies strictly outside [x_min, x_max]
Outside(q) == q < SeqMin(x) \/ q > SeqMax(x)

\* C3: for a wrapped interpolator with len(x) = len(y) (one sample or more),
\* either method and any left / right, an Extrapolator evaluation whose query
\* holds a point below x_min or above x_max completes without error and
\* returns one value per query point.
C3_ExtrapolatorNeverRaises ==
    (/\ res.op = "extrapolate"
     /\ Len(x) = Len(y)
     /\ \E j \in DOMAIN res.q : Outside(res.q[j])) =>
        /\ res.err = NoError
        /\ Len(res.out) = Len(res.q)

\* C4: every in-range point of an Extrapolator evaluation, alone or mixed
\* with out-of-range points, gets the outcome the wrapped interpolator itself
\* gives for that point, whatever the method, left and right.
C4_InRangeDelegates ==
    res.op = "extrapolate" =>
        \A j \in DOMAIN res.q : InRange(res.q[j]) =>
            LET direct == InterpolatorEvaluate(<<res.q[j]>>)
            IN  /\ res.err = direct.err
                /\ direct.err = NoError => res.out[j] = direct.out[1]

\* C5: in an Extrapolator evaluation, when left is set every point below
\* x_min returns left, when right is set every point above x_max returns
\* right, whatever the method; and an override on one side leaves the other
\* side with the method's value.
C5_OverridesTakePrecedence ==
    res.op = "extrapolate" =>
        \A j \in DOMAIN res.q :
            /\ (left # <<>> /\ res.q[j] < SeqMin(x)) =>
                   (res.err = NoError /\ res.out[j] = left[1])
            /\ (right # <<>> /\ res.q[j] > SeqMax(x)) =>
                   (res.err = NoError /\ res.out[j] = right[1])
            /\ (left = <<>> /\ right # <<>> /\ res.q[j] < SeqMin(x)) =>
                   (res.err = NoError /\
                        \E e \in Uninitialised : res.out[j] = MethodLeft(res.q[j], e))
            /\ (right = <<>> /\ left # <<>> /\ res.q[j] > SeqMax(x)) =>
                   (res.err = NoError /\
                        \E e \in Uninitialised : res.out[j] = MethodRight(res.q[j], e))

\* C6: an Extrapolator without overrides. An evaluation of out-of-range
\* points alone succeeds when the method is 'constant' or there are at least
\* two samples; and in a successful evaluation a q < x_min gets
\* y_0 + (q - x_0) * (y_1 - y_0) / (x_1 - x_0) with method 'linear' and y_0
\* with method 'constant', a q > x_max gets
\* y_last + (q - x_last) * (y_last - y_prev) / (x_last - x_prev) with method
\* 'linear' and y_last with method 'constant'.
C6_MethodValues ==
    (res.op = "extrapolate" /\ left = <<>> /\ right = <<>>) =>
        LET n == Len(x) IN
        /\ ((\A j \in DOMAIN res.q : Outside(res.q[j]))
                /\ (method = "constant" \/ n >= 2)) => res.err = NoError
        /\ res.err = NoError =>
               \A j \in DOMAIN res.q :
                   LET q == res.q[j]
                       v == res.out[j]
                   IN  /\ q < SeqMin(x) =>
                           IF method = "linear"
                           THEN RMul(RSub(v, R(y[1])), R(x[2] - x[1]))
                                    = R((q - x[1]) * (y[2] - y[1]))
                           ELSE v = R(y[1])
                       /\ q > SeqMax(x) =>
                           IF method = "linear"
                           THEN RMul(RSub(v, R(y[n])), R(x[n] - x[n - 1]))
                                    = R((q - x[n]) * (y[n] - y[n - 1]))
                           ELSE v = R(y[n])

\* a linear evaluation on both sides of the domain, with a slope on each side
C6_Witness ==
    /\ res.op = "extrapolate"
    /\ method = "linear"
    /\ left = <<>>
    /\ right = <<>>
    /\ res.err = NoError
    /\ Len(res.q) = 2
    /\ res.q[1] < SeqMin(x)
    /\ res.q[2] > SeqMax(x)
    /\ res.out[1] # R(y[1])
    /\ res.out[2] # R(y[Len(y)])

----------------------------------------------------------------------------
(* Claims about the four interpolators called directly *)

RangeErrors == {ErrBelow, ErrAbove}

\* C7 as stated: a direct evaluation fails with the out-of-range error if and
\* only if some query point is strictly below x_min or strictly above x_max,
\* and then returns no value.
C7_RangeErrorIffOutsideAnyState ==
    res.op = "call" =>
        /\ res.err \in RangeErrors <=> \E j \in DOMAIN res.q : Outside(res.q[j])
        /\ res.err \in RangeErrors => res.out = <<>>

\* C7: in a state with len(x) = len(y), a direct evaluation fails with the
\* out-of-range error if and only if some query point is strictly below x_min
\* or strictly above x_max (a point equal to x_min or x_max is accepted), and
\* then returns no value for any point of the call.
C7_RangeErrorIffOutside ==
    (res.op = "call" /\ Len(x) = Len(y)) =>
        /\ res.err \in RangeErrors <=> \E j \in DOMAIN res.q : Outside(res.q[j])
        /\ res.err \in RangeErrors => res.out = <<>>

\* the first sample together with a point above x_max: rejected as a whole
C7_Witness ==
    /\ res.op = "call"
    /\ Len(x) = Len(y)
    /\ Len(res.q) = 2
    /\ res.q[1] = SeqMin(x)
    /\ res.q[2] > SeqMax(x)
    /\ res.err = ErrAbove
    /\ res.out = <<>>

\* C8: construction with len(x) # len(y) fails (with the dimension error,
\* unless an earlier check of x or y rejects the arguments); an evaluation in
\* a state with len(x) # len(y) fails with the dimension error and returns no
\* value; and once a successful x or y assignment has made the lengths equal
\* again, with x uniformly spaced, the evaluation of every in-range point
\* succeeds.
C8_DimensionsEnforced ==
    /\ (res.op = "init" /\ res.q[1] # res.q[2]) =>
           res.err \in {ErrDimensions, ErrIndex, ErrAssertion}
    /\ (res.op = "call" /\ Len(x) # Len(y)) =>
           (res.err = ErrDimensions /\ res.out = <<>>)
    /\ (/\ res.op \in {"x", "y"}
        /\ res.err = NoError
        /\ res.q[1] # res.q[2]
        /\ Len(x) = Len(y)
        /\ IsUniform(x)) =>
           \A q \in EndPoints :
               InRange(q) => InterpolatorEvaluate(<<q>>).err = NoError

----------------------------------------------------------------------------
(* Claims about the SpragueInterpolator *)

\* C10: with a uniformly spaced x of at least 6 samples and as many y, the
\* evaluation at a sample point x_j, the first and the last included,
\* succeeds and returns y_j.
C10_SpragueReproducesSamples ==
    (/\ kind = "sprague"
     /\ res.op = "call"
     /\ IsUniform(x)
     /\ Len(x) = Len(y)) =>
        \A j \in DOMAIN x : res.q[1] = x[j] =>
            (res.err = NoError /\ res.out[1] = R(y[j]))

\* the evaluation at the first sample, whose stencil starts before the
\* boundary-extended y
C10_Witness ==
    /\ kind = "sprague"
    /\ res.op = "call"
    /\ res.err = NoError
    /\ IsUniform(x)
    /\ res.q[1] = x[1]
    /\ SpragueStencil(x[1])[1] < 0
    /\ res.out[1] = R(y[1])

----------------------------------------------------------------------------
(* Claims about the LinearInterpolator *)

\* C11: in a successful LinearInterpolator evaluation, a query q with
\* x_i <= q <= x_i+1 gets y_i + (q - x_i) * (y_i+1 - y_i) / (x_i+1 - x_i),
\* a value between y_i and y_i+1, and a query at a sample point x_i gets y_i.
C11_LinearInterpolation ==
    (kind = "linear" /\ res.op = "call" /\ res.err = NoError) =>
        \A j \in DOMAIN res.q :
            LET q == res.q[j]
                v == res.out[j]
            IN  /\ \A i \in DOMAIN x : q = x[i] => v = R(y[i])
                /\ \A i \in 1..(Len(x) - 1) : (x[i] <= q /\ q <= x[i + 1]) =>
                       /\ RMul(RSub(v, R(y[i])), R(x[i + 1] - x[i]))
                              = R((q - x[i]) * (y[i + 1] - y[i]))
                       /\ \/ RLe(R(y[i]), v) /\ RLe(v, R(y[i + 1]))
                          \/ RLe(R(y[i + 1]), v) /\ RLe(v, R(y[i]))

\* an evaluation strictly between two samples of different y
C11_Witness ==
    /\ kind = "linear"
    /\ res.op = "call"
    /\ res.err = NoError
    /\ \E i \in 1..(Len(x) - 1) :
           /\ x[i] < res.q[1]
           /\ res.q[1] < x[i + 1]
           /\ y[i] # y[i + 1]
           /\ res.out[1] # R(y[i])

----------------------------------------------------------------------------
(* Claims about the NullInterpolator *)

\* the least distance from q to a sample, and the first sample at it
ClosestDistance(q) == SeqMin([k \in DOMAIN x |-> Abs(x[k] - q)])
FirstClosest(q) ==
    CHOOSE k \in DOMAIN x :
        /\ Abs(x[k] - q) = ClosestDistance(q)
        /\ \A m \in 1..(k - 1) : Abs(x[m] - q) # ClosestDistance(q)

C13_AbsoluteToleranceIsAbsolute ==
    (kind = "null" /\ res.op = "call" /\ res.err = NoError
     /\ relative_tolerance = R(0)) =>
        \A j \in DOMAIN res.q :
            LET q == res.q[j]
            IN  res.out[j] = IF RLe(R(ClosestDistance(q)), absolute_tolerance)
                             THEN R(y[FirstClosest(q)])
                             ELSE default

----------------------------------------------------------------------------
(* Claims about the SpragueInterpolator's derived state *)

\* row k (from 0) of the coefficients dotted with six values starting at
\* position from of v
RowDot(k, v, from) ==
    LET c == SPRAGUE_C_COEFFICIENTS[k + 1]
        Sum[i \in 0..6] == IF i = 0 THEN 0 ELSE Sum[i - 1] + c[i] * v[from + i - 1]
    IN  Sum[6]

\* C14: the SpragueInterpolator's extended x is
\* [x_0 - 2h, x_0 - h] ++ x ++ [x_last + h, x_last + 2h], h the interval of the
\* current x, and its extended y is [yp1, yp2] ++ y ++ [yp3, yp4], yp1 and yp2
\* being rows 0 and 1 dotted with the first six current y values over 209,
\* yp3 and yp4 rows 2 and 3 dotted with the last six over 209.
C14_SpragueExtendedArrays ==
    kind = "sprague" =>
        LET h == SeqMin([i \in 1..(Len(x) - 1) |-> x[i + 1] - x[i]])
            n == Len(x)
            m == Len(y)
        IN  /\ Len(xp) = n + 4
            /\ xp[1] = x[1] - 2 * h
            /\ xp[2] = x[1] - h
            /\ \A i \in 1..n : xp[i + 2] = x[i]
            /\ xp[n + 3] = x[n] + h
            /\ xp[n + 4] = x[n] + 2 * h
            /\ Len(yp) = m + 4
            /\ RMul(yp[1], R(209)) = R(RowDot(0, y, 1))
            /\ RMul(yp[2], R(209)) = R(RowDot(1, y, 1))
            /\ \A i \in 1..m : yp[i + 2] = R(y[i])
            /\ RMul(yp[m + 3], R(209)) = R(RowDot(2, y, m - 5))
            /\ RMul(yp[m + 4], R(209)) = R(RowDot(3, y, m - 5))

\* after a y assignment of more than six samples, the last six of which give
\* another extension than the first six would
C14_Witness ==
    /\ kind = "sprague"
    /\ res.op = "y"
    /\ res.err = NoError
    /\ Len(y) > SpragueMin
    /\ R(RowDot(3, y, 1)) # R(RowDot(3, y, Len(y) - 5))
    /\ RMul(yp[Len(yp)], R(209)) = R(RowDot(3, y, Len(y) - 5))

----------------------------------------------------------------------------
(* Claims about non-uniform sampling *)

\* C16: giving a KernelInterpolator or a SpragueInterpolator an x of
\* non-uniform spacing, at construction or by assignment, emits the
\* non-uniform warning, raises nothing and stores the x; and a later
\* evaluation of in-range points proceeds.
C16_NonUniformIsNonFatal ==
    /\ [](/\ (/\ res.op = "init"
              /\ res.err = NoError
              /\ kind \in {"kernel", "sprague"}
              /\ ~IsUniform(x)) => res.warn
          /\ (/\ res.op = "call"
              /\ kind \in {"kernel", "sprague"}
              /\ HasInterval(x)
              /\ ~IsUniform(x)
              /\ Len(x) = Len(y)
              /\ \A j \in DOMAIN res.q : InRange(res.q[j])) => res.err = NoError)
    /\ [][\A v \in XArrays(Lens \cup SpragueLens) :
              (/\ HasInterval(v)
               /\ ~IsUniform(v)
               /\ (KernelSetX(v) \/ SpragueSetX(v))) =>
                  (res'.warn /\ res'.err = NoError /\ x' = v)]_vars

----------------------------------------------------------------------------
(* Claims about lagrange_coefficients *)

\* the product over i in 0..n-1, i # j, of (r - i) / (j - i); 1 when empty
BasisProduct(r, n, j) ==
    LET P[i \in 0..n] ==
            IF i = 0 THEN R(1)
            ELSE IF i - 1 = j THEN P[i - 1]
            ELSE RMul(P[i - 1], Rat(r[1] - (i - 1) * r[2], (j - (i - 1)) * r[2]))
    IN  P[n]

\* C17: for every n >= 1 and every point r, lagrange_coefficients(r, n)
\* returns without error n values, the j-th (j = 0..n-1) being the product
\* over i # j of (r - i) / (j - i), the empty product 1 when n = 1.
C17_LagrangeCoefficients ==
    (res.op = "lagrange" /\ res.q[2] >= 1) =>
        /\ res.err = NoError
        /\ Len(res.out) = res.q[2]
        /\ \A j \in 0..(res.q[2] - 1) :
               res.out[j + 1] = BasisProduct(res.q[1], res.q[2], j)

----------------------------------------------------------------------------
(* Claims about evaluation as a whole *)

\* the fields of the four interpolators
interpolatorVars == <<kind, x, y, kernelVars, spragueVars, nullVars>>

\* C18: an evaluation of any of the four interpolators changes no field of
\* the instance, and evaluating its query again in the state it leaves gives
\* the identical outcome: with no assignment in between, the same query
\* always returns the same output.
C18_EvaluationIsIdempotent ==
    /\ [](res.op = "call" => as_numeric(InterpolatorEvaluate(res.q)) = res)
    /\ [][res'.op = "call" => UNCHANGED interpolatorVars]_vars

\* a NullInterpolator evaluation that returned the default for a point off
\* the samples
C18_Witness ==
    /\ kind = "null"
    /\ res.op = "call"
    /\ res.err = NoError
    /\ res.out[1] = default
    /\ y[closest_indexes(res.q[1])] # 0

\* np.atleast_1d: the forms of input that reach evaluation as the points qs
InputForms(qs) ==
    IF Len(qs) = 1 THEN {"scalar", "sequence"} ELSE {"sequence"}

\* the form of the value an evaluation returns
ResultForm(o) == IF o.scalar THEN "scalar" ELSE "sequence"

\* C19: an evaluation returns as many values as it was given points, in the
\* form of its input: a scalar for a scalar, a sequence of n values for a
\* sequence of n points, n = 1 included.
C19_CardinalityPreserved ==
    (res.op \in {"call", "extrapolate"} /\ res.err = NoError) =>
        /\ Len(res.out) = Len(res.q)
        /\ \A form \in InputForms(res.q) : ResultForm(res) = form
----------------------------------------------------------------------------
(* Claims about the kernel functions *)

\* the arguments args with the distance negated
Mirrored(args) == [args EXCEPT ![1] = <<-args[1][1], args[1][2]>>]

\* the cubic c3 t^3 + c2 t^2 + c1 t + c0
Cubic(c3, c2, c1, c0, t) ==
    RAdd(RMul(RAdd(RMul(RAdd(RMul(c3, t), c2), t), c1), t), c0)

\* six times the first and the second cubic of the cardinal spline, in the
\* distance t >= 0
FirstCubic(a, b, t) ==
    Cubic(RSub(R(12), RAdd(RMul(R(6), a), RMul(R(9), b))),
          RSub(RAdd(RMul(R(6), a), RMul(R(12), b)), R(18)),
          R(0),
          RSub(R(6), RMul(R(2), b)), t)
SecondCubic(a, b, t) ==
    Cubic(RSub(R(0), RAdd(RMul(R(6), a), b)),
          RAdd(RMul(R(30), a), RMul(R(6), b)),
          RSub(R(0), RAdd(RMul(R(48), a), RMul(R(12), b))),
          RAdd(RMul(R(24), a), RMul(R(8), b)), t)

\* C20: the kernel functions have the documented shapes and supports:
\* nearest-neighbour is 1 for |d| < 1/2 and 0 from 1/2 on, linear is 1 - |d|
\* for |d| < 1 and 0 from 1 on, the cardinal spline is a sixth of its first
\* cubic for |d| < 1, of its second for 1 <= |d| < 2, and 0 from 2 on (with
\* the Catmull-Rom values 1, 9/16, 0, -1/16 at 0, 1/2, 1, 3/2 by default),
\* sinc and lanczos are 0 from a on and not 0 at the non-integer points
\* inside, and every kernel has the same value at d and at -d.
C20_KernelShapes ==
    LET k == res.op
        d == res.q[1]
        t == RAbs(res.q[1])
        v == res.out[1]
    IN  k \in KernelFunctions =>
            /\ res.err = NoError /\ Len(res.out) = 1
            /\ v = KernelFunction(k, Mirrored(res.q))
            /\ k = "kernel_nearest_neighbour" =>
                   v = IF RLt(t, <<1, 2>>) THEN R(1) ELSE R(0)
            /\ k = "kernel_linear" =>
                   v = IF RLt(t, R(1)) THEN RSub(R(1), t) ELSE R(0)
            /\ k = "kernel_cardinal_spline" =>
                   /\ RLt(t, R(1)) =>
                          RMul(R(6), v) = FirstCubic(res.q[2], res.q[3], t)
                   /\ (RLe(R(1), t) /\ RLt(t, R(2))) =>
                          RMul(R(6), v) = SecondCubic(res.q[2], res.q[3], t)
                   /\ RLe(R(2), t) => v = R(0)
                   /\ (res.q[2] = <<1, 2>> /\ res.q[3] = R(0)) =>
                          /\ t = R(0) => v = R(1)
                          /\ t = <<1, 2>> => v = <<9, 16>>
                          /\ t = R(1) => v = R(0)
                          /\ t = <<3, 2>> => v = <<-1, 16>>
            /\ k \in {"kernel_sinc", "kernel_lanczos"} =>
                   /\ RLe(res.q[2], t) => v = SincZero
                   /\ (RLt(t, res.q[2]) /\ d[2] # 1) => v.coef # R(0)
                   /\ d = R(0) => v = [coef |-> R(1), at |-> <<>>]

\* the default cardinal spline at -3/2, in its second cubic
C20_Witness ==
    /\ res.op = "kernel_cardinal_spline"
    /\ res.q = << <<-3, 2>>, <<1, 2>>, R(0)>>
    /\ res.out = << <<-1, 16>> >>

----------------------------------------------------------------------------
(* Claims about the Extrapolator and its wrapped interpolator *)

\* the value one of the rules (override, linear, constant) assigns to a
\* point q outside the domain, if any rule does
RuleValues(q) ==
    IF q < x[1]
    THEN IF left # <<>> THEN {left[1]}
         ELSE IF method = "linear" THEN {LinearLeft(q)}
         ELSE IF method = "constant" THEN {R(y[1])} ELSE {}
    ELSE IF right # <<>> THEN {right[1]}
         ELSE IF method = "linear" THEN {LinearRight(q)}
         ELSE IF method = "constant" THEN {R(y[Len(y)])} ELSE {}

\* C27: whatever string the method was given and whether or not left and
\* right are set, every value a successful Extrapolator evaluation returns
\* for a point outside the domain is the one a rule (override, linear,
\* constant) assigns, and the whole output is the same whatever the memory
\* of the output array held: it depends on the configuration and the query
\* alone.
C27_OutputDeterminedByConfiguration ==
    (res.op = "extrapolate" /\ res.err = NoError) =>
        /\ \A empty \in EmptyLike(res.q) :
               res = as_numeric(ExtrapolatorEvaluate(res.q, empty))
        /\ \A j \in DOMAIN res.q :
               ~InRange(res.q[j]) => res.out[j] \in RuleValues(res.q[j])


\* C24: an assignment to the wrapped interpolator's x or y stores the
\* assigned array where the Extrapolator reads it, and every successful
\* Extrapolator evaluation takes the first and last of the samples now stored
\* both to tell the points outside the domain and to compute their values
\* (override, linear or constant), delegating the points inside.
C24_ExtrapolatorReadsCurrentSamples ==
    /\ []((res.op = "extrapolate" /\ res.err = NoError) =>
            \A j \in DOMAIN res.q :
                LET q == res.q[j] IN
                /\ (q < x[1] \/ q > x[Len(x)]) =>
                       (RuleValues(q) # {} => res.out[j] \in RuleValues(q))
                /\ (x[1] <= q /\ q <= x[Len(x)]) =>
                       res.out[j] = InterpolatorEvaluate(<<q>>).out[1])
    /\ [][res'.op = "x" =>
              \A v \in XArrays(Lens) \cup ReplacedX :
                  LinearSetX(v) => (x' = v /\ UNCHANGED <<y, extrapVars>>)]_vars
    /\ [][res'.op = "y" =>
              \A v \in YArrays(Lens) \cup ReplacedY :
                  LinearSetY(v) => (y' = v /\ UNCHANGED <<x, extrapVars>>)]_vars

\* a linear evaluation, after x and y were both replaced, of a point that
\* lies above every domain the interpolator was constructed with and below
\* the new one: it continues the new, falling, samples
C24_Witness ==
    /\ res.op = "extrapolate"
    /\ res.err = NoError
    /\ method = "linear"
    /\ left = <<>>
    /\ x \in ReplacedX
    /\ y \in ReplacedY
    /\ res.q = <<x[1] - 1>>
    /\ res.out = <<R(y[1] + 1)>>


\* the operations that are assignments to a property
SetterOps ==
    {"x", "y", "window", "absolute_tolerance", "relative_tolerance",
     "default", "method", "left", "right"}

\* C25: an assignment that raises leaves every stored field and every
\* padded or extended array as it was before the assignment.
C25_FailedSetterChangesNothing ==
    [][(res'.op \in SetterOps /\ res'.err # NoError) =>
           UNCHANGED <<kind, x, y, kernelVars, spragueVars, nullVars,
                       extrapVars>>]_vars

----------------------------------------------------------------------------
(* Claims about evaluations in progress *)

\* the outcomes the evaluation e can have when it runs alone, from its call
\* to its return, on the instance as it is
EvaluatedAlone(e) ==
    IF e.target = "interpolator"
    THEN {as_numeric(InterpolatorEvaluate(e.q))}
    ELSE {as_numeric(ExtrapolatorEvaluate(e.q, empty)) :
              empty \in EmptyLike(e.q)}

\* some thread is evaluating
InProgress == \E t \in Threads : evals[t].pc # "idle"

\* C21: while evaluations of an interpolator or an Extrapolator are in
\* progress, their steps interleaved in any order and no assignment made,
\* every evaluation that completes has an outcome it has when run alone, and
\* no step changes a field of the instance.
C21_ConcurrentEvaluationIsSafe ==
    /\ [](\A t \in Threads :
              evals[t].pc = "done" => evals[t].out \in EvaluatedAlone(evals[t]))
    /\ [][(InProgress \/ InProgress') =>
              UNCHANGED <<kind, x, y, kernelVars, spragueVars, nullVars,
                          extrapVars>>]_vars

\* two Extrapolator evaluations of different queries, the first completed
\* with a linear value while the second is between its steps
C21_Witness ==
    /\ method = "linear"
    /\ evals["t1"].pc = "done"
    /\ evals["t1"].target = "extrapolator"
    /\ evals["t1"].out.err = NoError
    /\ evals["t1"].q = <<x[1] - 1>>
    /\ evals["t2"].target = "extrapolator"
    /\ evals["t2"].pc = "compute"
    /\ evals["t2"].q = <<x[Len(x)] + 1>>


\* C28: no step of an evaluation, of an interpolator or of an Extrapolator,
\* completing or raising, changes x, y, the window, the kernel, the padding,
\* the padded or extended arrays, the tolerances, the default, or the
\* Extrapolator's method, left and right.
C28_EvaluationHasNoSideEffect ==
    [][evals' # evals =>
           /\ UNCHANGED <<kind, x, y>>
           /\ UNCHANGED <<window, padding_args, kernel, x_p, y_p>>
           /\ UNCHANGED <<xp, yp>>
           /\ UNCHANGED <<absolute_tolerance, relative_tolerance, default>>
           /\ UNCHANGED <<method, left, right>>]_vars

\* a NullInterpolator evaluation completed with the default for a point
\* between samples, next to a sample whose y is not 0, while another
\* evaluation has raised
C28_Witness ==
    /\ kind = "null"
    /\ evals["t1"].pc = "done"
    /\ evals["t1"].target = "interpolator"
    /\ evals["t1"].out.err = NoError
    /\ evals["t1"].out.out = <<default>>
    /\ y[closest_indexes(evals["t1"].q[1])] # 0
    /\ evals["t2"].pc = "done"
    /\ evals["t2"].out.err \in RangeErrors

----------------------------------------------------------------------------
(* Claims about the window and the stencil *)

\* the KernelInterpolator's padded arrays are those of its x, y and window
KernelConsistent ==
    /\ kind = "kernel"
    /\ Len(x) = Len(y)
    /\ IsUniform(x)
    /\ window = padding_args
    /\ x_p = KernelPadX(x, window)
    /\ y_p = KernelPadY(y, window)

\* C23: on a uniformly spaced x with interval h, an evaluation at an
\* in-range q, k = floor((q - x_0) / h) being the sample at or below q, sums
\* the padded samples at the 2 * window grid positions k - window + 1 ..
\* k + window, which are the indexes k + 1 .. k + 2 * window of the padded y,
\* each taken once and weighted by the kernel at its distance to q in units
\* of h.
C23_WindowIsCentredOnQuery ==
    (KernelConsistent /\ res.op = "call" /\ Len(res.q) = 1
        /\ InRange(res.q[1])) =>
        LET q == res.q[1]
            h == interval0(x)
            k == RFloor(Rat(q - x[1], h))
            position(i) == x[1] + (k - window + i) * h
        IN  /\ res.err = NoError
            /\ KernelWindows(q) = [i \in 1..(2 * window) |-> k + i]
            /\ res.out[1] =
                   RSum([i \in 1..(2 * window) |->
                            RMul(R(At(y_p, k + i)),
                                 ApplyKernel(kernel, Rat(q - position(i), h)))])


\* C26: in a SpragueInterpolator evaluation at a q of [x_min, x_max], the
\* ends included, the interval index i has xp[i] <= q <= xp[i + 1] and the
\* six stencil indexes i - 2 .. i + 3 are positions 0 .. len(yp) - 1 of the
\* extended y: none is negative, none is read from the other end.
C26_SpragueStencilInsideExtendedY ==
    (kind = "sprague" /\ res.op = "call" /\ Len(x) = Len(y)) =>
        \A j \in DOMAIN res.q :
            InRange(res.q[j]) =>
                LET i == SpragueIndex(res.q[j]) IN
                /\ res.err = NoError
                /\ i >= 0 /\ i + 1 < Len(xp)
                /\ At(xp, i) <= res.q[j] /\ res.q[j] <= At(xp, i + 1)
                /\ \A k \in 1..6 :
                       /\ SpragueStencil(res.q[j])[k] >= 0
                       /\ SpragueStencil(res.q[j])[k] <= Len(yp) - 1


\* the sum of a row of the coefficients
RowSum(row) ==
    LET c == SPRAGUE_C_COEFFICIENTS[row]
    IN  c[1] + c[2] + c[3] + c[4] + c[5] + c[6]

\* C29: a SpragueInterpolator over uniformly spaced x and y_j = c + m * x_j:
\* each row of the coefficients sums to 209, the extended y continues the
\* line at x_0 - 2h, x_0 - h, x_last + h and x_last + 2h, and an evaluation
\* at any q of the domain returns c + m * q.
C29_SpragueExactOnAffine ==
    \A c \in Intercepts, m \in Slopes :
        (kind = "sprague" /\ IsUniform(x) /\ y = Affine(c, m, x)) =>
            /\ \A row \in 1..4 : RowSum(row) = 209
            /\ Len(yp) = Len(xp)
            /\ \A k \in DOMAIN yp : yp[k] = R(c + m * xp[k])
            /\ (res.op = "call" /\ InRange(res.q[1])) =>
                   /\ res.err = NoError
                   /\ res.out[1] = R(c + m * res.q[1])

\* an evaluation halfway between two samples of a line that is not flat
C29_Witness ==
    /\ kind = "sprague"
    /\ res.op = "call"
    /\ res.err = NoError
    /\ interval0(x) = 2
    /\ (res.q[1] - x[1]) % 2 = 1
    /\ y = Affine(3, -2, x)
    /\ res.out[1] = R(3 - 2 * res.q[1])

----------------------------------------------------------------------------
(* Claims about cvd_matrix_Machado2010 *)

\* C22: for a severity that is one of the tabulated severities of the
\* deficiency, the smallest and the largest included, cvd_matrix_Machado2010
\* returns the tabulated matrix of that severity.
C22_TabulatedSeverityGivesTabulatedMatrix ==
    res.op \in Deficiencies =>
        \A k \in DOMAIN TabulatedSeverities :
            res.q[1] = TabulatedSeverities[k] =>
                res.out = CVD_MATRICES_MACHADO_2010(res.op)[k]

\* the severity 0.3, a tabulated one between the ends, with a matrix that
\* differs from its two neighbours
C22_Witness ==
    /\ res.op = "Protanomaly"
    /\ res.q = << <<3, 10>> >>
    /\ res.out = CVD_MATRICES_MACHADO_2010("Protanomaly")[4]
    /\ res.out # CVD_MATRICES_MACHADO_2010("Protanomaly")[3]
    /\ res.out # CVD_MATRICES_MACHADO_2010("Protanomaly")[5]

\* v lies between a and b
Between(v, a, b) == RLe(RMin(a, b), v) /\ RLe(v, RMax(a, b))

\* C30: for a severity strictly between two adjacent tabulated severities
\* s_k and s_k+1, cvd_matrix_Machado2010 returns
\* M(s_k) + (severity - s_k) * (M(s_k+1) - M(s_k)) / (s_k+1 - s_k), every
\* entry of which lies between the entries of M(s_k) and M(s_k+1); for a
\* severity above the largest tabulated one it returns the matrix of the
\* largest.
C30_InterpolatesBetweenBrackets ==
    res.op \in Deficiencies =>
        LET severity == res.q[1]
            s == TabulatedSeverities
            M == CVD_MATRICES_MACHADO_2010(res.op)
        IN  /\ \A k \in 1..(Len(s) - 1) :
                   (RLt(s[k], severity) /\ RLt(severity, s[k + 1])) =>
                       \A e \in DOMAIN res.out :
                           /\ RMul(RSub(res.out[e], M[k][e]),
                                   RSub(s[k + 1], s[k]))
                                  = RMul(RSub(severity, s[k]),
                                         RSub(M[k + 1][e], M[k][e]))
                           /\ Between(res.out[e], M[k][e], M[k + 1][e])
            /\ RLt(s[Len(s)], severity) => res.out = M[Len(s)]

====
